---- MODULE Spec2Model ----
(***************************************************************************)
(* Model of nuffield_scraper.py: main() fetches page 1 of a paginated      *)
(* search API, reads the page count from its envelope, fetches pages       *)
(* 2..num_pages tolerating per-page failures, and writes every collected   *)
(* record as one flattened CSV row.                                        *)
(*                                                                         *)
(* Python values are tagged records:                                       *)
(*   None  [t |-> "null"]            bool  [t |-> "bool", b |-> TRUE]      *)
(*   int   [t |-> "int", n |-> 0]    str   [t |-> "str", s |-> <<chars>>]  *)
(*   list  [t |-> "list", items |-> <<values>>]                            *)
(*   dict  [t |-> "dict", pairs |-> << <<key chars, value>>, ... >>]       *)
(* A str is the sequence of its characters, each a one-character string.   *)
(* A raw consultant record is a function from its key names to values.     *)
(***************************************************************************)
EXTENDS Integers, Sequences, FiniteSets, TLC

VARIABLES
    pc,           \* position of main(): start, loop, write, rows, done, aborted
    file0,        \* content of the output path before the run
    file,         \* content of the output path
    first_page,   \* decoded response of fetch_page(1)
    total,        \* main()'s total
    num_pages,    \* main()'s num_pages
    page_num,     \* the loop variable of the accumulation loop
    all_records,  \* main()'s all_records
    log,          \* the fetch_page calls (with the records each response
                  \* carried), time.sleep calls and open() calls so far
    idx,          \* position of the write loop in all_records
    rec,          \* the record being flattened
    row           \* the row built from rec

vars == <<pc, file0, file, first_page, total, num_pages, page_num,
          all_records, log, idx, rec, row>>

(***************************************************************************)
(* Bounds                                                                  *)
(***************************************************************************)
MaxPages == 3      \* num_pages ranges over 0..MaxPages
MaxRecs == 2       \* a page response carries 0..MaxRecs records
MaxTotal == 2      \* total_result_count ranges over 0..MaxTotal
MaxListLen == 2    \* a list value holds 0..MaxListLen items

(***************************************************************************)
(* Program constants                                                       *)
(***************************************************************************)
FIELDS ==
    << "id", "fullname", "firstname", "lastname", "title",
       "url", "gender", "specialties", "hospitals", "locations",
       "image", "bookable", "gmcNumber", "professionalQualifications",
       "languages", "offersPaediatrics", "roboticAssistedSurgery",
       "gpReferralRequired", "daysUntilNextAppointment", "availabilityRank",
       "popularity", "updated_at" >>

PoliteDelay == 400     \* time.sleep(0.4), in milliseconds
BackoffDelay == 2000   \* time.sleep(2), in milliseconds

(***************************************************************************)
(* Python values                                                           *)
(***************************************************************************)
None == [t |-> "null"]
PyBool(b) == [t |-> "bool", b |-> b]
PyInt(n) == [t |-> "int", n |-> n]
PyStr(s) == [t |-> "str", s |-> s]
PyList(items) == [t |-> "list", items |-> items]
PyDict(pairs) == [t |-> "dict", pairs |-> pairs]

RECURSIVE Flat(_)
\* the concatenation of a sequence of sequences
Flat(ss) == IF ss = <<>> THEN <<>> ELSE Head(ss) \o Flat(Tail(ss))

RECURSIVE Join(_, _)
\* sep.join(parts)
Join(parts, sep) ==
    IF parts = <<>> THEN <<>>
    ELSE IF Len(parts) = 1 THEN Head(parts)
    ELSE Head(parts) \o sep \o Join(Tail(parts), sep)

DigitChar(d) == <<"0", "1", "2", "3", "4", "5", "6", "7", "8", "9">>[d + 1]

RECURSIVE NatDigits(_)
NatDigits(n) == IF n < 10 THEN <<DigitChar(n)>>
                ELSE NatDigits(n \div 10) \o <<DigitChar(n % 10)>>

\* the decimal text of an int, as str(n) and json.dumps(n) produce it
IntText(n) == IF n < 0 THEN <<"-">> \o NatDigits(-n) ELSE NatDigits(n)

\* json.dumps escapes one character of a str (ensure_ascii is on)
EscapeChar(c) ==
    CASE c = "\"" -> <<"\\", "\"">>
      [] c = "\\" -> <<"\\", "\\">>
      [] c = "\n" -> <<"\\", "n">>
      [] c = "e-acute" -> <<"\\", "u", "0", "0", "e", "9">>
      [] OTHER -> <<c>>

\* json.dumps of a str
DumpsStr(s) == <<"\"">> \o Flat([i \in 1..Len(s) |-> EscapeChar(s[i])]) \o <<"\"">>

RECURSIVE dumps(_)
\* json.dumps(v) with the default separators ", " and ": "
dumps(v) ==
    CASE v.t = "null" -> <<"n", "u", "l", "l">>
      [] v.t = "bool" -> IF v.b THEN <<"t", "r", "u", "e">>
                         ELSE <<"f", "a", "l", "s", "e">>
      [] v.t = "int" -> IntText(v.n)
      [] v.t = "str" -> DumpsStr(v.s)
      [] v.t = "list" ->
            <<"[">> \o Join([i \in 1..Len(v.items) |-> dumps(v.items[i])],
                            <<",", " ">>) \o <<"]">>
      [] v.t = "dict" ->
            <<"{">> \o Join([i \in 1..Len(v.pairs) |->
                               DumpsStr(v.pairs[i][1]) \o <<":", " ">>
                                   \o dumps(v.pairs[i][2])],
                            <<",", " ">>) \o <<"}">>

(***************************************************************************)
(* The flattener                                                           *)
(***************************************************************************)
\* a mutation: truthiness test in place of the None test
flatten_value_truthy(v) ==
    IF v.t \in {"list", "dict"} THEN PyStr(dumps(v))
    ELSE IF v = None \/ v = PyBool(FALSE) \/ v = PyInt(0) \/ v = PyStr(<<>>)
         THEN PyStr(<<>>) ELSE v

\* flatten_value(v)
flatten_value(v) ==
    IF v.t \in {"list", "dict"} THEN PyStr(dumps(v))
    ELSE IF v # None THEN v ELSE PyStr(<<>>)

\* rec.get(field)
Get(r, field) == IF field \in DOMAIN r THEN r[field] ELSE None

FieldSet == {FIELDS[i] : i \in 1..Len(FIELDS)}

\* a mutation: the row is built over the record's own keys
RowOfOwnKeys(r) == [field \in DOMAIN r |-> flatten_value(Get(r, field))]

\* {field: flatten_value(rec.get(field)) for field in FIELDS}
RowOf(r) == [field \in FieldSet |-> flatten_value(Get(r, field))]

\* the csv writer's text of one cell: None is empty, a str is itself,
\* anything else is str(v)
CellText(v) ==
    CASE v.t = "null" -> <<>>
      [] v.t = "str" -> v.s
      [] v.t = "int" -> IntText(v.n)
      [] v.t = "bool" -> IF v.b THEN <<"T", "r", "u", "e">>
                         ELSE <<"F", "a", "l", "s", "e">>

\* writer.writeheader(): the field names, in FIELDS order
HeaderLine == [kind |-> "header", names |-> FIELDS]

\* writer.writerow(row): the cells of row, in FIELDS order
DataLine(rw) ==
    [kind |-> "data",
     cells |-> [i \in 1..Len(FIELDS) |->
                   IF FIELDS[i] \in DOMAIN rw THEN CellText(rw[FIELDS[i]])
                   ELSE <<>>]]

(***************************************************************************)
(* The upstream service and the output path                                *)
(***************************************************************************)
\* the record the API serves at position j of page k: every record has its
\* own id; records differ in shape (extra keys, missing keys, a null, a
\* list, a mapping, a false and a 0)
ConsultantRecord(k, j) ==
    IF (k + j) % 2 = 0
    THEN [id |-> PyStr(<<"p">> \o IntText(k) \o <<"r">> \o IntText(j)),
          specialties |-> PyList(<<PyStr(<<"E", "N", "T">>)>>),
          bookable |-> PyBool(FALSE),
          sortScore |-> PyInt(0)]
    ELSE [id |-> PyStr(<<"p">> \o IntText(k) \o <<"r">> \o IntText(j)),
          gender |-> None,
          locations |-> PyDict(<< <<<<"l", "a", "t">>, PyInt(51)>> >>),
          daysUntilNextAppointment |-> PyInt(0)]

\* the records of a response for page k that carries n records
PageSlice(k, n) == [j \in 1..n |-> ConsultantRecord(k, j)]

\* the decoded body of a search response
Response(t, n, recs) ==
    [info |-> [page |-> [total_result_count |-> t, num_pages |-> n]],
     records |-> [page |-> recs]]

NoResponse == [info |-> "unbound"]
Unbound == -1          \* a local name main() has not assigned yet
NoRecord == <<>>

NoFile == [exists |-> FALSE, lines |-> <<>>]
StaleFile == [exists |-> TRUE, lines |-> <<[kind |-> "stale"]>>]

FetchEv(k, ok, recs) == [e |-> "fetch", page |-> k, ok |-> ok, records |-> recs]
SleepEv(ms) == [e |-> "sleep", ms |-> ms]
OpenEv == [e |-> "open"]

(***************************************************************************)
(* main()                                                                  *)
(***************************************************************************)
Init ==
    /\ pc = "start"
    /\ file0 \in {NoFile, StaleFile}
    /\ file = file0
    /\ first_page = NoResponse
    /\ total = Unbound
    /\ num_pages = Unbound
    /\ page_num = Unbound
    /\ all_records = <<>>
    /\ log = <<>>
    /\ idx = Unbound
    /\ rec = NoRecord
    /\ row = NoRecord

\* a mutation: the failure of page 1 is swallowed and the run goes on to write
FetchFirstFailSwallowed ==
    /\ pc = "start"
    /\ log' = Append(log, FetchEv(1, FALSE, <<>>))
    /\ num_pages' = 0
    /\ page_num' = 2
    /\ pc' = "loop"
    /\ UNCHANGED <<file0, file, first_page, total, all_records, idx, rec, row>>

\* fetch_page(1) raises: the exception leaves main()
FetchFirstFail ==
    /\ pc = "start"
    /\ log' = Append(log, FetchEv(1, FALSE, <<>>))
    /\ pc' = "aborted"
    /\ UNCHANGED <<file0, file, first_page, total, num_pages, page_num,
                   all_records, idx, rec, row>>

\* a mutation: the page count is derived from the total, one record a page
FetchFirstOkDerivedPages ==
    /\ pc = "start"
    /\ \E t \in 0..MaxTotal, n \in 0..MaxPages, c \in 0..MaxRecs :
          /\ first_page' = Response(t, n, PageSlice(1, c))
          /\ log' = Append(log, FetchEv(1, TRUE, PageSlice(1, c)))
    /\ total' = first_page'.info.page.total_result_count
    /\ num_pages' = total'
    /\ all_records' = first_page'.records.page
    /\ page_num' = 2
    /\ pc' = "loop"
    /\ UNCHANGED <<file0, file, idx, rec, row>>

\* fetch_page(1) returns; total, num_pages and all_records are read from it
\* and range(2, num_pages + 1) is set up
FetchFirstOk ==
    /\ pc = "start"
    /\ \E t \in 0..MaxTotal, n \in 0..MaxPages, c \in 0..MaxRecs :
          /\ first_page' = Response(t, n, PageSlice(1, c))
          /\ log' = Append(log, FetchEv(1, TRUE, PageSlice(1, c)))
    /\ total' = first_page'.info.page.total_result_count
    /\ num_pages' = first_page'.info.page.num_pages
    /\ all_records' = first_page'.records.page
    /\ page_num' = 2
    /\ pc' = "loop"
    /\ UNCHANGED <<file0, file, idx, rec, row>>

\* a mutation: the page's records are put in front of the collected ones
PageOkPrepend ==
    /\ pc = "loop"
    /\ page_num <= num_pages
    /\ \E recs \in {PageSlice(page_num, c) : c \in 0..MaxRecs} :
          /\ log' = log \o <<SleepEv(PoliteDelay), FetchEv(page_num, TRUE, recs)>>
          /\ all_records' = recs \o all_records
    /\ page_num' = page_num + 1
    /\ UNCHANGED <<pc, file0, file, first_page, total, num_pages, idx, rec, row>>

\* a mutation: collection stops at the API-reported total
PageOkCapped ==
    /\ pc = "loop"
    /\ page_num <= num_pages
    /\ \E recs \in {PageSlice(page_num, c) : c \in 0..MaxRecs} :
          /\ log' = log \o <<SleepEv(PoliteDelay), FetchEv(page_num, TRUE, recs)>>
          /\ all_records' = IF Len(all_records \o recs) <= total
                            THEN all_records \o recs ELSE all_records
    /\ page_num' = page_num + 1
    /\ UNCHANGED <<pc, file0, file, first_page, total, num_pages, idx, rec, row>>

\* one iteration of the loop whose try body completes: the polite delay,
\* fetch_page(page_num), all_records.extend(records)
PageOk ==
    /\ pc = "loop"
    /\ page_num <= num_pages
    /\ \E recs \in {PageSlice(page_num, c) : c \in 0..MaxRecs} :
          /\ log' = log \o <<SleepEv(PoliteDelay), FetchEv(page_num, TRUE, recs)>>
          /\ all_records' = all_records \o recs
    /\ page_num' = page_num + 1
    /\ UNCHANGED <<pc, file0, file, first_page, total, num_pages, idx, rec, row>>

\* a mutation: the failed page is fetched again
PageFailRetry ==
    /\ pc = "loop"
    /\ page_num <= num_pages
    /\ log' = log \o <<SleepEv(PoliteDelay), FetchEv(page_num, FALSE, <<>>),
                       SleepEv(BackoffDelay)>>
    /\ UNCHANGED <<pc, file0, file, first_page, total, num_pages, page_num,
                   all_records, idx, rec, row>>

\* a mutation: the failure ends the loop
PageFailBreak ==
    /\ pc = "loop"
    /\ page_num <= num_pages
    /\ log' = log \o <<SleepEv(PoliteDelay), FetchEv(page_num, FALSE, <<>>),
                       SleepEv(BackoffDelay)>>
    /\ page_num' = num_pages + 1
    /\ UNCHANGED <<pc, file0, file, first_page, total, num_pages,
                   all_records, idx, rec, row>>

\* a mutation: no backoff after the failure
PageFailNoBackoff ==
    /\ pc = "loop"
    /\ page_num <= num_pages
    /\ log' = log \o <<SleepEv(PoliteDelay), FetchEv(page_num, FALSE, <<>>)>>
    /\ page_num' = page_num + 1
    /\ UNCHANGED <<pc, file0, file, first_page, total, num_pages,
                   all_records, idx, rec, row>>

\* a mutation: the exception is not caught and leaves main()
PageFailRaise ==
    /\ pc = "loop"
    /\ page_num <= num_pages
    /\ log' = log \o <<SleepEv(PoliteDelay), FetchEv(page_num, FALSE, <<>>)>>
    /\ pc' = "aborted"
    /\ UNCHANGED <<file0, file, first_page, total, num_pages, page_num,
                   all_records, idx, rec, row>>

\* one iteration of the loop whose try body raises: the polite delay, the
\* failing fetch_page(page_num), the except clause's backoff delay
PageFail ==
    /\ pc = "loop"
    /\ page_num <= num_pages
    /\ log' = log \o <<SleepEv(PoliteDelay), FetchEv(page_num, FALSE, <<>>),
                       SleepEv(BackoffDelay)>>
    /\ page_num' = page_num + 1
    /\ UNCHANGED <<pc, file0, file, first_page, total, num_pages,
                   all_records, idx, rec, row>>

\* range(2, num_pages + 1) is exhausted
LoopEnd ==
    /\ pc = "loop"
    /\ page_num > num_pages
    /\ pc' = "write"
    /\ UNCHANGED <<file0, file, first_page, total, num_pages, page_num,
                   all_records, log, idx, rec, row>>

\* open(output_file, "w") truncates the file; writer.writeheader()
OpenFile ==
    /\ pc = "write"
    /\ file' = [exists |-> TRUE, lines |-> <<HeaderLine>>]
    /\ log' = Append(log, OpenEv)
    /\ idx' = 1
    /\ pc' = "rows"
    /\ UNCHANGED <<file0, first_page, total, num_pages, page_num,
                   all_records, rec, row>>

\* one iteration of "for rec in all_records": build the row, write it
WriteRow ==
    /\ pc = "rows"
    /\ idx <= Len(all_records)
    /\ rec' = all_records[idx]
    /\ row' = RowOf(rec')
    /\ file' = [file EXCEPT !.lines = Append(@, DataLine(row'))]
    /\ idx' = idx + 1
    /\ UNCHANGED <<pc, file0, first_page, total, num_pages, page_num,
                   all_records, log>>

\* all_records is exhausted: the with block closes the file
CloseFile ==
    /\ pc = "rows"
    /\ idx > Len(all_records)
    /\ pc' = "done"
    /\ UNCHANGED <<file0, file, first_page, total, num_pages, page_num,
                   all_records, log, idx, rec, row>>

Next ==
    \/ FetchFirstFail
    \/ FetchFirstOk
    \/ PageOk
    \/ PageFail
    \/ LoopEnd
    \/ OpenFile
    \/ WriteRow
    \/ CloseFile

Spec == Init /\ [][Next]_vars

\* main() is one sequential thread: it takes its next step whenever it has one
FairSpec == Spec /\ WF_vars(Next)

(***************************************************************************)
(* The flattener on its own, over a wide range of raw records              *)
(***************************************************************************)
Scalars ==
    { None, PyBool(FALSE), PyBool(TRUE), PyInt(0), PyInt(-12),
      PyStr(<<>>), PyStr(<<"a", "\"">>) }

Items == { None, PyBool(TRUE), PyInt(7), PyStr(<<"\\", "e-acute">>) }

Lists == {PyList(s) : s \in UNION {[1..n -> Items] : n \in 0..MaxListLen}}

Dicts ==
    {PyDict(<<>>)} \cup
    {PyDict(<< <<<<"k">>, v>> >>) : v \in Items \cup {PyList(<<PyInt(1)>>)}} \cup
    {PyDict(<< <<<<"k">>, PyInt(1)>>, <<<<"n", "\n">>, PyDict(<<>>)>> >>)}

Values == Scalars \cup Lists \cup Dicts

\* a key of the schema and a key outside it, each present or absent
FlatKeys == {"specialties", "sortScore"}

RawRecords == UNION {[ks -> Values] : ks \in SUBSET FlatKeys}

FlatInit ==
    /\ pc = "flat"
    /\ rec \in RawRecords
    /\ row = NoRecord
    /\ file0 = NoFile
    /\ file = NoFile
    /\ first_page = NoResponse
    /\ total = Unbound
    /\ num_pages = Unbound
    /\ page_num = Unbound
    /\ all_records = <<>>
    /\ log = <<>>
    /\ idx = Unbound

\* row = {field: flatten_value(rec.get(field)) for field in FIELDS}
FlattenRecord ==
    /\ pc = "flat"
    /\ row' = RowOf(rec)
    /\ pc' = "flattened"
    /\ UNCHANGED <<file0, file, first_page, total, num_pages, page_num,
                   all_records, log, idx, rec>>

FlatNext == FlattenRecord

FlatSpec == FlatInit /\ [][FlatNext]_vars

(***************************************************************************)
(* What the log and the responses say about a run                          *)
(***************************************************************************)
IsFetch(ev) == ev.e = "fetch"
IsOpen(ev) == ev.e = "open"

\* the fetch_page calls of the run, in call order
Fetches == SelectSeq(log, IsFetch)

\* the page indices passed to fetch_page, in call order
FetchedPages == [i \in 1..Len(Fetches) |-> Fetches[i].page]

\* the positions of the fetch_page calls in the log
FetchPos == {i \in 1..Len(log) : IsFetch(log[i])}

\* p and q are the positions of two fetch_page calls with none in between
Consecutive(p, q) ==
    /\ p \in FetchPos
    /\ q \in FetchPos
    /\ p < q
    /\ \A r \in FetchPos : ~(p < r /\ r < q)

\* the number of open() calls
Opens == Len(SelectSeq(log, IsOpen))

\* the accumulation loop has ended
AfterLoop == pc \in {"write", "rows", "done"}

\* the highest page index the run has to fetch
LastPage == IF num_pages >= 1 THEN num_pages ELSE 1

\* the records the successful response(s) for page k carried
PageRecords(k) ==
    LET S == SelectSeq(Fetches, LAMBDA ev : ev.page = k /\ ev.ok)
    IN  Flat([i \in 1..Len(S) |-> S[i].records])

\* the records of the successfully fetched pages, by page index and then
\* by position in the page
RecordsInPageOrder == Flat([k \in 1..LastPage |-> PageRecords(k)])

\* the records every response so far carried, in arrival order
RecordsServed == Flat([i \in 1..Len(Fetches) |-> Fetches[i].records])

\* the CSV that holds the header and one row for each record of recs
CsvOf(recs) ==
    <<HeaderLine>> \o [i \in 1..Len(recs) |-> DataLine(RowOf(recs[i]))]

AllFetchesOk == \A i \in 1..Len(Fetches) : Fetches[i].ok

(***************************************************************************)
(* json.loads, to read back what the flattener encoded                     *)
(***************************************************************************)
Digits == {"0", "1", "2", "3", "4", "5", "6", "7", "8", "9"}
DigitVal(c) == CHOOSE d \in 0..9 : DigitChar(d) = c

RECURSIVE ScanString(_, _, _)
\* s[i] is the first character after the opening quote
ScanString(s, i, acc) ==
    IF s[i] = "\"" THEN [v |-> acc, next |-> i + 1]
    ELSE IF s[i] = "\\"
         THEN IF s[i + 1] = "n" THEN ScanString(s, i + 2, Append(acc, "\n"))
              ELSE IF s[i + 1] = "u"
                   THEN ScanString(s, i + 6,
                            Append(acc,
                                IF SubSeq(s, i + 2, i + 5) = <<"0", "0", "e", "9">>
                                THEN "e-acute" ELSE "?"))
                   ELSE ScanString(s, i + 2, Append(acc, s[i + 1]))
         ELSE ScanString(s, i + 1, Append(acc, s[i]))

RECURSIVE ScanNat(_, _, _)
ScanNat(s, i, acc) ==
    IF i <= Len(s) /\ s[i] \in Digits
    THEN ScanNat(s, i + 1, 10 * acc + DigitVal(s[i]))
    ELSE [v |-> acc, next |-> i]

RECURSIVE ParseValue(_, _)
RECURSIVE ParseItems(_, _, _)
RECURSIVE ParsePairs(_, _, _)

\* the value whose text starts at s[i], and the position after it
ParseValue(s, i) ==
    CASE s[i] = "n" -> [v |-> None, next |-> i + 4]
      [] s[i] = "t" -> [v |-> PyBool(TRUE), next |-> i + 4]
      [] s[i] = "f" -> [v |-> PyBool(FALSE), next |-> i + 5]
      [] s[i] = "\"" -> LET r == ScanString(s, i + 1, <<>>)
                        IN  [v |-> PyStr(r.v), next |-> r.next]
      [] s[i] = "-" -> LET r == ScanNat(s, i + 1, 0)
                       IN  [v |-> PyInt(-r.v), next |-> r.next]
      [] s[i] \in Digits -> LET r == ScanNat(s, i, 0)
                            IN  [v |-> PyInt(r.v), next |-> r.next]
      [] s[i] = "[" -> IF s[i + 1] = "]"
                       THEN [v |-> PyList(<<>>), next |-> i + 2]
                       ELSE ParseItems(s, i + 1, <<>>)
      [] s[i] = "{" -> IF s[i + 1] = "}"
                       THEN [v |-> PyDict(<<>>), next |-> i + 2]
                       ELSE ParsePairs(s, i + 1, <<>>)

\* the items of a list from s[i] on; acc holds the items read so far
ParseItems(s, i, acc) ==
    LET r == ParseValue(s, i)
        items == Append(acc, r.v)
    IN  IF s[r.next] = "]" THEN [v |-> PyList(items), next |-> r.next + 1]
        ELSE ParseItems(s, r.next + 2, items)

\* the pairs of a mapping from s[i] on; acc holds the pairs read so far
ParsePairs(s, i, acc) ==
    LET k == ScanString(s, i + 1, <<>>)
        r == ParseValue(s, k.next + 2)
        pairs == Append(acc, <<k.v, r.v>>)
    IN  IF s[r.next] = "}" THEN [v |-> PyDict(pairs), next |-> r.next + 1]
        ELSE ParsePairs(s, r.next + 2, pairs)

\* json.loads(s)
loads(s) == ParseValue(s, 1).v

(***************************************************************************)
(* Claims                                                                  *)
(***************************************************************************)

\* C1: at the end of the accumulation loop every page index 1..num_pages has
\* been passed to fetch_page exactly once; at every moment the page indices
\* fetched so far are strictly increasing, so no page is fetched twice and a
\* failed page is never retried.
C1_EachPageOnceInOrder ==
    /\ \A i, j \in 1..Len(FetchedPages) :
          i < j => FetchedPages[i] < FetchedPages[j]
    /\ AfterLoop =>
          \A k \in 1..num_pages :
              Cardinality({i \in 1..Len(FetchedPages) : FetchedPages[i] = k}) = 1

\* the loop has ended after three or more pages, one of which failed
C1_Witness ==
    /\ pc = "write"
    /\ num_pages >= 3
    /\ \E i \in 1..Len(Fetches) : ~Fetches[i].ok

\* C2: when the fetch of a page k >= 2 fails the run does not abort, every
\* page k+1..num_pages is still fetched before the loop ends, and the CSV
\* written holds exactly the records of the pages whose fetch succeeded,
\* each once, in page order.
C2_FailedPageOnlyLosesItsRecords ==
    \A i \in 1..Len(Fetches) :
        (Fetches[i].page >= 2 /\ ~Fetches[i].ok) =>
            /\ pc # "aborted"
            /\ AfterLoop =>
                  \A k \in (Fetches[i].page + 1)..num_pages :
                      \E j \in 1..Len(Fetches) : j > i /\ Fetches[j].page = k
            /\ pc = "done" =>
                  /\ PageRecords(Fetches[i].page) = <<>>
                  /\ file.lines = CsvOf(RecordsInPageOrder)

\* a finished run in which a page failed and a later page delivered records
C2_Witness ==
    /\ pc = "done"
    /\ \E i, j \in 1..Len(Fetches) :
          /\ i < j
          /\ Fetches[i].page >= 2
          /\ ~Fetches[i].ok
          /\ Fetches[j].ok
          /\ Fetches[j].records # <<>>
    /\ Len(file.lines) >= 3

\* C3: when the fetch of page 1 fails the run is aborted, fetch_page was
\* called that one time only, the output file was never opened, and the
\* output path holds what it held before the run (nothing, or the old file).
C3_FirstPageFailureWritesNothing ==
    (Len(Fetches) >= 1 /\ ~Fetches[1].ok) =>
        /\ pc = "aborted"
        /\ Len(log) = 1
        /\ Opens = 0
        /\ file = file0

\* page 1 failed while an older output file existed
C3_Witness ==
    /\ pc = "aborted"
    /\ file0 = StaleFile
    /\ file = StaleFile

\* C4 as claimed: the number of fetch_page calls of a run equals num_pages
\* for every num_pages, 0 included.
C4_Original ==
    AfterLoop =>
        /\ num_pages = first_page.info.page.num_pages
        /\ Len(Fetches) = num_pages

\* C4 as amended: main()'s num_pages is the reported num_pages; the run
\* makes num_pages fetch_page calls when num_pages >= 1 and one call (page
\* 1) when num_pages is 0.
C4_FetchCount ==
    AfterLoop =>
        /\ num_pages = first_page.info.page.num_pages
        /\ Len(Fetches) = (IF num_pages >= 1 THEN num_pages ELSE 1)

\* the loop has ended for a response that reported no pages
C4_Witness ==
    /\ pc = "write"
    /\ first_page.info.page.num_pages = 0
    /\ Len(Fetches) = 1

\* C5 as claimed: once page 1 is read, all_records never holds more records
\* than total_result_count.
C5_Original ==
    pc \in {"loop", "write", "rows", "done"} => Len(all_records) <= total

\* C5 as amended: all_records holds exactly the records the responses
\* carried, so it stays within total_result_count whenever the responses
\* together carry no more than total_result_count records.
C5_CollectedEqualsServed ==
    pc \in {"loop", "write", "rows", "done"} =>
        /\ Len(all_records) = Len(RecordsServed)
        /\ Len(RecordsServed) <= total => Len(all_records) <= total

\* the CSV was written from more records than the reported total
C5_Witness ==
    /\ pc = "done"
    /\ Len(all_records) > total
    /\ Len(file.lines) = 1 + Len(all_records)

\* C6 as claimed: the key set of a built row is the FIELDS list, which has
\* 21 fields.
C6_Original ==
    pc = "flattened" =>
        /\ DOMAIN row = FieldSet
        /\ Cardinality(DOMAIN row) = 21

\* C6 as amended: the key set of a built row is exactly the FIELDS list,
\* which has 22 distinct fields; keys of the record outside FIELDS are not
\* in the row and fields the record lacks are in the row with an empty
\* string.
C6_RowKeysAreFields ==
    pc = "flattened" =>
        /\ DOMAIN row = FieldSet
        /\ Cardinality(DOMAIN row) = 22
        /\ Len(FIELDS) = 22
        /\ (DOMAIN rec \ FieldSet) \cap DOMAIN row = {}
        /\ \A f \in FieldSet \ DOMAIN rec : row[f] = PyStr(<<>>)

\* a record with a key outside the schema and a schema key missing
C6_Witness ==
    /\ pc = "flattened"
    /\ "sortScore" \in DOMAIN rec
    /\ "specialties" \notin DOMAIN rec

\* C8 as claimed: an absent field gives the empty string, a list or mapping
\* gives its JSON text, every other value (null included) is kept unchanged.
C8_Original ==
    pc = "flattened" =>
        \A f \in FieldSet :
            row[f] = IF f \notin DOMAIN rec THEN PyStr(<<>>)
                     ELSE IF rec[f].t \in {"list", "dict"}
                          THEN PyStr(dumps(rec[f]))
                          ELSE rec[f]

\* C8 as amended: an absent field and a null field give the empty string, a
\* list or mapping gives a str that json.loads reads back as the same
\* value, every other scalar (false and 0 included) is kept unchanged.
C8_FlattenedValue ==
    pc = "flattened" =>
        \A f \in FieldSet :
            IF f \notin DOMAIN rec THEN row[f] = PyStr(<<>>)
            ELSE IF rec[f].t \in {"list", "dict"}
                 THEN /\ row[f].t = "str"
                      /\ loads(row[f].s) = rec[f]
                 ELSE IF rec[f] = None THEN row[f] = PyStr(<<>>)
                      ELSE row[f] = rec[f]

\* a record whose schema field is null was flattened
C8_Witness ==
    /\ pc = "flattened"
    /\ "specialties" \in DOMAIN rec
    /\ rec["specialties"] = None
    /\ row["specialties"] = PyStr(<<>>)

\* C7: when every page fetch succeeded the finished CSV is one header row
\* followed by one data row per record the pages returned, by page index
\* and then by position in the page; the number of data rows is the sum of
\* the pages' record counts.
C7_AllPagesOkCsv ==
    (pc = "done" /\ AllFetchesOk) =>
        /\ file.lines = CsvOf(RecordsInPageOrder)
        /\ file.lines[1] = HeaderLine
        /\ \A i \in 2..Len(file.lines) : file.lines[i].kind = "data"
        /\ Len(file.lines) - 1 = Len(RecordsServed)

\* three pages fetched without a failure, one of them with two records
C7_Witness ==
    /\ pc = "done"
    /\ AllFetchesOk
    /\ num_pages >= 3
    /\ \E i, j \in 1..Len(Fetches) :
          /\ i < j
          /\ Len(Fetches[i].records) >= 2
          /\ Fetches[j].records # <<>>

\* C9 as claimed: between a successful fetch and the next fetch lies exactly
\* the polite delay; between a failed fetch and the next fetch lies exactly
\* the backoff delay, in place of the polite delay; the next fetch is for
\* the next page.
C9_Original ==
    \A p, q \in 1..Len(log) :
        Consecutive(p, q) =>
            /\ log[q].page = log[p].page + 1
            /\ SubSeq(log, p + 1, q - 1) =
                   (IF log[p].ok THEN <<SleepEv(PoliteDelay)>>
                    ELSE <<SleepEv(BackoffDelay)>>)

\* C9 as amended: every fetch of a page k >= 2 is directly preceded by the
\* polite delay; a failed fetch of a page k >= 2 is directly followed by the
\* backoff delay; so between a failed fetch and the next fetch lie the
\* backoff delay and then the polite delay; the next fetch is for the next
\* page.
C9_Delays ==
    /\ \A p, q \in 1..Len(log) :
          Consecutive(p, q) =>
              /\ log[q].page = log[p].page + 1
              /\ SubSeq(log, p + 1, q - 1) =
                     (IF log[p].ok THEN <<SleepEv(PoliteDelay)>>
                      ELSE <<SleepEv(BackoffDelay), SleepEv(PoliteDelay)>>)
    /\ \A p \in FetchPos :
          (log[p].page >= 2 /\ ~log[p].ok) =>
              /\ p < Len(log)
              /\ log[p + 1] = SleepEv(BackoffDelay)

\* a failed fetch of page k followed by the fetch of page k+1, and a
\* successful fetch followed by another fetch
C9_Witness ==
    /\ \E p, q \in 1..Len(log) :
          Consecutive(p, q) /\ ~log[p].ok /\ log[q].page = log[p].page + 1
    /\ \E p, q \in 1..Len(log) :
          Consecutive(p, q) /\ log[p].ok /\ log[q].page = log[p].page + 1

====
